---- MODULE Spec2Model ----
(***************************************************************************)
(* quieromudarme: the revision-tracking ETL (etl.py) and the notifier      *)
(* (notifier.py, chatbot/bot.py) over the store of searches, housings,     *)
(* revisions and housing watches.                                          *)
(*                                                                         *)
(* Time is counted in units of ten minutes.  A revision of a housing is    *)
(* identified by its position in the housing's revision log; 0 stands for  *)
(* "no revision" (a null link).                                            *)
(***************************************************************************)
EXTENDS Integers, Sequences, FiniteSets, TLC

VARIABLES
    now,            \* wall clock, in units of ten minutes
    searches,       \* HousingSearch rows: id -> [user, created_at]
    last_search_at, \* HousingSearch.last_search_at: id -> time or None
    revs,           \* housing id -> its revision log, a sequence of values
    watch,          \* <<search, housing>> -> NoWatch or [notified, current]
    etlPc,          \* position of etl_housing_for_all_searches
    etlQueue,       \* searches the loop has still to process
    etlRuns,        \* number of ETL runs started
    etlUnit,        \* the unit in flight or just finished: search, posts, result
    etlPrev,        \* search and posts of the latest store that reached the housing upsert
    etlElig,        \* searches the running ETL selected
    etlOk,          \* searches of this run whose unit returned
    etlFailed,      \* searches of this run whose unit raised
    etlReport,      \* len(errors): the count the run's QMError reports
    etlAttempt,     \* attempt number of the scheduled ETL phase (the job's retry)
    etlTried,       \* searches whose unit failed in an earlier attempt of this phase
    seeded,         \* <<search, housing>> -> revision its watch was created as notified at
    ntPc,           \* position of the notifier pass
    ntKind,         \* which pass: "upd" (notify_new_revisions) or "new" (notify_new_housing)
    ntQueue,        \* the users the pass has still to process, with their watches
    ntBatch,        \* the user and watches of the iteration in flight
    ntRuns,         \* number of notifier passes started
    delivered,      \* <<search, housing, revision>> -> times its entry was sent
    ntHist,         \* what the running pass did: pre-run marks, sends, blocks, alerts
    ntCycle,        \* pass kind -> the ETL run after which the pipeline last started it
    pg,             \* a call of a provider's get_search_results: arguments, site, result
    crReq,          \* create_search requests in flight: user, url, position, outcome
    orch,           \* the orchestrator of a pipeline run: its tasks' tries and states
    chat            \* a user's conversation with the bot: its state and a message's handlers

dbVars == <<now, searches, last_search_at, revs, watch>>
etlVars == <<etlPc, etlQueue, etlRuns, etlUnit, etlPrev, etlElig, etlOk, etlFailed, etlReport,
             etlAttempt, etlTried, seeded>>
ntVars == <<ntPc, ntKind, ntQueue, ntBatch, ntRuns, delivered, ntHist, ntCycle>>
sideVars == <<pg, crReq, orch, chat>>
vars == <<dbVars, etlVars, ntVars, sideVars>>

----------------------------------------------------------------------------
(* Bounds *)

NSearches == 2
NPosts == 2
MaxBatchLen == 2
MaxRevs == 3
MaxEtlRuns == 2
MaxPending1 == 6
MaxPending2 == 1
MaxNotifyRuns == 2
MaxTicks == 1
MaxSitePages == 3
MaxPagesArg == 2
MaxItems == 3
NReqs == 2
MaxChatNow == 76
MaxCommands == 1
MaxTotalItems == 160

(* Program constants *)

TEN_MIN == 1
START_DELTA == 9
MAX_NOTIFS_IN_UPDATE_PER_USER == 5
BIG_SEARCH == 50
\* stop=tenacity.stop_after_attempt(3)
MAX_ATTEMPTS == 3
\* schedule="0 */2 * * *": the pipeline runs every two hours
PERIOD == 12
MAX_FREE_SEARCHES == 2
EXCESSIVE_RESULTS_ERROR == 500
\* blueground.MAX_PAGE_SIZE
MAX_PAGE_SIZE == 50
\* ConversationState.EXPIRATION_TIMEDELTA = timedelta(hours=12)
EXPIRATION_TIMEDELTA == 72

\* a null time or duration
None == -1
NoUser == "nobody"
\* the absence of a watch row
NoWatch == [notified |-> 0, current |-> 0]

PostIds == 1..NPosts
\* the (price, currency) pairs a provider may report
Vals == {<<100, "USD">>, <<100, "ARS">>}
Posts == [post_id : PostIds, val : Vals]

RECURSIVE SeqsUpTo(_, _)
SeqsUpTo(S, n) ==
    IF n = 0 THEN {<<>>}
    ELSE LET shorter == SeqsUpTo(S, n - 1)
         IN  shorter \cup {Append(q, x) : q \in {r \in shorter : Len(r) = n - 1}, x \in S}

Batches == SeqsUpTo(Posts, MaxBatchLen)

Min(a, b) == IF a < b THEN a ELSE b

Range(q) == {q[i] : i \in 1..Len(q)}

RECURSIVE SetToSeq(_)
SetToSeq(S) ==
    IF S = {} THEN <<>>
    ELSE LET m == CHOOSE x \in S : \A y \in S : x <= y
         IN  <<m>> \o SetToSeq(S \ {m})

----------------------------------------------------------------------------
(* store_housing_posts: the normalisation done in Python *)

\* positions of the first occurrence of each post_id, in order
FirstPositions(posts) ==
    {i \in 1..Len(posts) : \A j \in 1..(i - 1) : posts[j].post_id # posts[i].post_id}

\* the last post of the batch with the post_id of position i
LastWithId(posts, i) ==
    LET js == {j \in 1..Len(posts) : posts[j].post_id = posts[i].post_id}
    IN  posts[CHOOSE j \in js : \A k \in js : k <= j]

RECURSIVE PickPositions(_, _)
PickPositions(posts, ps) ==
    IF ps = <<>> THEN <<>>
    ELSE <<LastWithId(posts, Head(ps))>> \o PickPositions(posts, Tail(ps))

DedupKeepAll(posts) == posts

DedupKeepFirst(posts) ==
    LET fp == SetToSeq(FirstPositions(posts))
    IN  [i \in 1..Len(fp) |-> posts[fp[i]]]

\* list({post.post_id: post for post in posts}.values()): a dict keeps the
\* position of a key's first insertion and the value of its last one
Dedup(posts) ==
    IF Cardinality({posts[i].post_id : i \in 1..Len(posts)}) # Len(posts)
    THEN PickPositions(posts, SetToSeq(FirstPositions(posts)))
    ELSE posts

\* the "Investigate dupes" warning of store_housing_posts
DupesWarning(posts) ==
    Cardinality({posts[i].post_id : i \in 1..Len(posts)}) # Len(posts)

----------------------------------------------------------------------------
(* The store's queries (db module) *)

UpsertOneOverwrite(rv, post) ==
    LET log == rv[post.post_id]
    IN  [revs |-> [rv EXCEPT ![post.post_id] =
                      IF log = <<>> THEN <<post.val>>
                      ELSE [log EXCEPT ![Len(log)] = post.val]],
         row  |-> [id |-> post.post_id, is_new |-> log = <<>>,
                   added_revision |-> log # <<>> /\ log[Len(log)] # post.val]]

\* one post of upsert_housing_from_search: create the housing with its first
\* revision, or append a revision when (price, currency) differs from the
\* current one
UpsertOne(rv, post) ==
    LET log == rv[post.post_id]
        isNew == log = <<>>
        added == ~isNew /\ log[Len(log)] # post.val
    IN  [revs |-> IF isNew \/ added
                  THEN [rv EXCEPT ![post.post_id] = Append(log, post.val)]
                  ELSE rv,
         row  |-> [id |-> post.post_id, is_new |-> isNew, added_revision |-> added]]

RECURSIVE UpsertHousing(_, _)
UpsertHousing(rv, posts) ==
    IF posts = <<>> THEN [revs |-> rv, rows |-> <<>>]
    ELSE LET one  == UpsertOne(rv, Head(posts))
             rest == UpsertHousing(one.revs, Tail(posts))
         IN  [revs |-> rest.revs, rows |-> <<one.row>> \o rest.rows]

\* n_new_stuff of store_housing_posts: sum(u.added_revision) + sum(u.is_new)
NNewStuff(rows) ==
    Cardinality({i \in 1..Len(rows) : rows[i].added_revision})
        + Cardinality({i \in 1..Len(rows) : rows[i].is_new})

\* upsert_watches_for_search: a missing watch is created, marked as notified
\* when as_notified; every watch is moved to the housing's latest revision
UpsertWatches(w, rv, s, housing_ids, as_notified) ==
    [k \in DOMAIN w |->
        IF k[1] = s /\ k[2] \in housing_ids
        THEN LET cur == Len(rv[k[2]])
             IN  IF w[k] = NoWatch
                 THEN [notified |-> IF as_notified THEN cur ELSE 0, current |-> cur]
                 ELSE [w[k] EXCEPT !.current = cur]
        ELSE w[k]]

\* get_housing_searches: every search, in the store's order
GetHousingSearches == SetToSeq(DOMAIN searches)

----------------------------------------------------------------------------
(* etl_housing_for_all_searches *)

EligibleSearchesNoGrace(start_delta) ==
    LET fresh(s) == \/ start_delta = None
                    \/ last_search_at[s] = None
                    \/ last_search_at[s] < now - start_delta
    IN  SelectSeq(GetHousingSearches, fresh)

EligibleSearchesSkipNull(start_delta) ==
    LET graceOk(s) == searches[s].created_at < now - TEN_MIN
        fresh(s)   == \/ start_delta = None
                      \/ /\ last_search_at[s] # None
                         /\ last_search_at[s] < now - start_delta
        keep(s)    == graceOk(s) /\ fresh(s)
    IN  SelectSeq(GetHousingSearches, keep)

\* the searches an ETL run keeps: the grace filter, then the start_delta one
EligibleSearches(start_delta) ==
    LET graceOk(s) == searches[s].created_at < now - TEN_MIN
        fresh(s)   == \/ start_delta = None
                      \/ last_search_at[s] = None
                      \/ last_search_at[s] < now - start_delta
        keep(s)    == graceOk(s) /\ fresh(s)
    IN  SelectSeq(GetHousingSearches, keep)

QueueAfterErrorAbort(q) == <<>>

\* except Exception: errors.append(err) -- the loop goes on with the next search
QueueAfterError(q) == Tail(q)

NoUnit == [search |-> 0, rows |-> <<>>, before |-> <<>>, as_notified |-> FALSE,
           again |-> FALSE, warned |-> FALSE, outcome |-> "none"]
NoPrev == [search |-> 0, posts |-> <<>>]

\* no call of get_search_results is under way
\* attempt: the attempts of the call that raised so far (tenacity.retry)
NoFetch == [provider |-> "none", max_pages |-> None, site |-> <<>>, fetched |-> None,
            attempt |-> 0, offsets |-> <<>>]

\* get_provider_by_name: the providers that have a connector
Adapters == {"ZonaProp", "MercadoLibre", "Airbnb", "Blueground"}

HasAdapter(s) == searches[s].provider \in Adapters

AsNotifiedNever(s) == FALSE

\* as_notified = search.last_search_at is None
AsNotified(s) == last_search_at[s] = None

\* the watches created by the first store of a search (the search has no
\* last_search_at yet), with the revision they are created at
SeedMarks(sd, w, rv, s, housing_ids) ==
    [k \in DOMAIN sd |->
        IF k[1] = s /\ k[2] \in housing_ids /\ w[k] = NoWatch /\ last_search_at[s] = None
        THEN Len(rv[k[2]])
        ELSE sd[k]]

\* the head of etl_housing_for_all_searches: the searches are read and
\* filtered, and the error list is empty
StartRun(start_delta) ==
    /\ etlQueue' = EligibleSearches(start_delta)
    /\ etlElig' = Range(EligibleSearches(start_delta))
    /\ etlOk' = {}
    /\ etlFailed' = {}
    /\ etlReport' = 0
    /\ etlPc' = "loop"

\* if errors: raise QMError
EtlRaised == etlPc = "done" /\ etlReport > 0

\* a run is started: by the scheduler (attempt 1 of etl_searches, with
\* start_delta) or by hand (no start_delta, attempt 0)
EtlStart(start_delta) ==
    /\ etlPc \in {"idle", "done"}
    /\ ntPc \in {"idle", "done", "raised"}
    /\ etlRuns < MaxEtlRuns
    /\ etlRuns' = etlRuns + 1
    /\ StartRun(start_delta)
    /\ etlAttempt' = IF start_delta = None THEN 0 ELSE 1
    /\ etlTried' = {}
    /\ UNCHANGED <<dbVars, ntVars, etlUnit, etlPrev, seeded>>
    /\ UNCHANGED sideVars

\* etl_searches raised and its tenacity.retry calls it again
EtlRetry ==
    /\ EtlRaised
    /\ etlAttempt \in 1..(MAX_ATTEMPTS - 1)
    /\ ntPc \in {"idle", "done", "raised"}
    /\ etlRuns < MaxEtlRuns
    /\ etlRuns' = etlRuns + 1
    /\ StartRun(START_DELTA)
    /\ etlAttempt' = etlAttempt + 1
    /\ etlTried' = etlTried \cup etlFailed
    /\ UNCHANGED <<dbVars, ntVars, etlUnit, etlPrev, seeded>>
    /\ UNCHANGED sideVars

\* get_provider_by_name raises: the search names a provider without connector
EtlNoAdapter ==
    /\ etlPc = "loop" /\ etlQueue # <<>>
    /\ ~HasAdapter(Head(etlQueue))
    /\ etlUnit' = [NoUnit EXCEPT !.search = Head(etlQueue), !.outcome = "no_adapter"]
    /\ etlFailed' = etlFailed \cup {Head(etlQueue)}
    /\ etlReport' = etlReport + 1
    /\ etlQueue' = QueueAfterError(etlQueue)
    /\ UNCHANGED <<dbVars, ntVars, etlPc, etlRuns, etlPrev, etlElig, etlOk, etlAttempt,
                   etlTried, seeded>>
    /\ UNCHANGED sideVars

\* an attempt of get_search_results raises and tenacity.retry calls it again
\* (stop_after_attempt(3): two failed attempts may be followed by another)
EtlFetchRetry ==
    /\ etlPc = "loop" /\ etlQueue # <<>>
    /\ HasAdapter(Head(etlQueue))
    /\ pg.attempt < MAX_ATTEMPTS - 1
    /\ pg' = [NoFetch EXCEPT !.provider = searches[Head(etlQueue)].provider,
                             !.attempt = pg.attempt + 1]
    /\ UNCHANGED <<dbVars, etlVars, ntVars, crReq, orch, chat>>

\* the last attempt get_search_results is allowed has raised
FetchExhausted == pg.attempt = MAX_ATTEMPTS - 1

\* provider.fetch_latest_results raises
EtlFetchFail ==
    /\ etlPc = "loop" /\ etlQueue # <<>>
    /\ HasAdapter(Head(etlQueue))
    /\ etlUnit' = [NoUnit EXCEPT !.search = Head(etlQueue), !.outcome = "fetch_failed"]
    /\ etlFailed' = etlFailed \cup {Head(etlQueue)}
    /\ etlReport' = etlReport + 1
    /\ etlQueue' = QueueAfterError(etlQueue)
    /\ UNCHANGED <<dbVars, ntVars, etlPc, etlRuns, etlPrev, etlElig, etlOk, etlAttempt,
                   etlTried, seeded>>
    /\ pg' = NoFetch
    /\ UNCHANGED <<crReq, orch, chat>>

\* the fetch returns posts; store_housing_posts removes the duplicates and
\* upsert_housing_from_search (DB 1 of 2) succeeds
EtlUpsertHousing(posts) ==
    /\ etlPc = "loop" /\ etlQueue # <<>>
    /\ HasAdapter(Head(etlQueue))
    /\ LET s   == Head(etlQueue)
           res == UpsertHousing(revs, Dedup(posts))
       IN  /\ \A h \in DOMAIN revs : Len(revs[h]) < MaxRevs \/ res.revs[h] = revs[h]
           /\ revs' = res.revs
           /\ etlUnit' = [search |-> s, rows |-> res.rows, before |-> revs,
                          as_notified |-> AsNotified(s),
                          again |-> etlPrev = [search |-> s, posts |-> posts],
                          warned |-> DupesWarning(posts),
                          outcome |-> "housing_stored"]
           /\ etlPrev' = [search |-> s, posts |-> posts]
    /\ etlPc' = "watches"
    /\ UNCHANGED <<now, searches, last_search_at, watch, ntVars, etlQueue, etlRuns,
                   etlElig, etlOk, etlFailed, etlReport, etlAttempt, etlTried, seeded>>
    /\ pg' = NoFetch
    /\ UNCHANGED <<crReq, orch, chat>>

\* the fetch returns posts and upsert_housing_from_search raises
EtlUpsertHousingFail ==
    /\ etlPc = "loop" /\ etlQueue # <<>>
    /\ HasAdapter(Head(etlQueue))
    /\ etlUnit' = [NoUnit EXCEPT !.search = Head(etlQueue), !.outcome = "housing_failed"]
    /\ etlFailed' = etlFailed \cup {Head(etlQueue)}
    /\ etlReport' = etlReport + 1
    /\ etlQueue' = QueueAfterError(etlQueue)
    /\ UNCHANGED <<dbVars, ntVars, etlPc, etlRuns, etlPrev, etlElig, etlOk, etlAttempt,
                   etlTried, seeded>>
    /\ pg' = NoFetch
    /\ UNCHANGED <<crReq, orch, chat>>

\* upsert_watches_for_search (DB 2 of 2) succeeds and the unit returns
EtlUpsertWatches ==
    /\ etlPc = "watches"
    /\ LET s   == etlUnit.search
           ids == {etlUnit.rows[i].id : i \in 1..Len(etlUnit.rows)}
       IN  /\ watch' = UpsertWatches(watch, revs, s, ids, etlUnit.as_notified)
           /\ seeded' = SeedMarks(seeded, watch, revs, s, ids)
           /\ last_search_at' = [last_search_at EXCEPT ![s] = now]
           /\ etlOk' = etlOk \cup {s}
    /\ etlUnit' = [NoUnit EXCEPT !.search = etlUnit.search, !.again = etlUnit.again,
                                 !.outcome = "stored"]
    /\ etlQueue' = Tail(etlQueue)
    /\ etlPc' = "loop"
    /\ UNCHANGED <<now, searches, revs, ntVars, etlRuns, etlPrev, etlElig, etlFailed,
                   etlReport, etlAttempt, etlTried>>
    /\ UNCHANGED sideVars

\* upsert_watches_for_search raises after the housings were upserted
EtlUpsertWatchesFail ==
    /\ etlPc = "watches"
    /\ etlUnit' = [NoUnit EXCEPT !.search = etlUnit.search, !.rows = etlUnit.rows,
                                 !.outcome = "watches_failed"]
    /\ etlFailed' = etlFailed \cup {etlUnit.search}
    /\ etlReport' = etlReport + 1
    /\ etlQueue' = QueueAfterError(etlQueue)
    /\ etlPc' = "loop"
    /\ UNCHANGED <<dbVars, ntVars, etlRuns, etlPrev, etlElig, etlOk, etlAttempt, etlTried,
                   seeded>>
    /\ UNCHANGED sideVars

\* the loop is over: raise QMError("<n> errors during ETL") if errors
EtlFinish ==
    /\ etlPc = "loop" /\ etlQueue = <<>>
    /\ etlPc' = "done"
    /\ UNCHANGED <<dbVars, ntVars, etlQueue, etlRuns, etlUnit, etlPrev, etlElig, etlOk,
                   etlFailed, etlReport, etlAttempt, etlTried, seeded>>
    /\ UNCHANGED sideVars

\* the units of a run and its end
NextEtlUnit ==
    \/ EtlFetchFail
    \/ \E posts \in Batches : EtlUpsertHousing(posts)
    \/ EtlUpsertHousingFail
    \/ EtlUpsertWatches
    \/ EtlUpsertWatchesFail
    \/ EtlFinish

NextEtl ==
    \/ \E d \in {None, START_DELTA} : EtlStart(d)
    \/ EtlRetry
    \/ EtlNoAdapter
    \/ NextEtlUnit

----------------------------------------------------------------------------
(* The notifier passes: notify_new_revisions ("upd") and notify_new_housing
   ("new") of notifier.py, which send through notify_updated_housing and
   notify_new_housing of chatbot/bot.py *)

UserSeq == <<"u1", "u2">>

\* a watch is pending when its notified revision is not its current one
Pending(w) == w # NoWatch /\ w.notified # w.current

\* the watches the two queries select
OfKind(kind, w) ==
    /\ Pending(w)
    /\ IF kind = "new" THEN w.notified = 0 ELSE w.notified # 0

\* the store's order of a user's watches: by housing, then by search
Before(a, b) == a[2] < b[2] \/ (a[2] = b[2] /\ a[1] <= b[1])

\* the watches of S in that order: the i-th one has i watches at or before it
WatchSeq(S) ==
    [i \in 1..Cardinality(S) |->
        CHOOSE x \in S : Cardinality({y \in S : Before(y, x)}) = i]

WatchItem(k) ==
    [key |-> k, revision |-> watch[k].current, old |-> watch[k].notified]

ItemsOf(keys) == [i \in 1..Len(keys) |-> WatchItem(keys[i])]

\* get_updated_housing_watches_to_notify / get_new_housing_watches_to_notify:
\* the users that have such watches, each with its watches in order
GetWatchesToNotify(kind) ==
    LET keysOf(u) == {k \in DOMAIN watch :
                        searches[k[1]].user = u /\ OfKind(kind, watch[k])}
        has(u)    == keysOf(u) # {}
        row(u)    == [user |-> u, watches |-> ItemsOf(WatchSeq(keysOf(u)))]
        us        == SelectSeq(UserSeq, has)
    IN  [i \in 1..Len(us) |-> row(us[i])]

\* update_notified_housing_watches: notified := the given revision, per watch
UpdateNotified(w, items) ==
    [k \in DOMAIN w |->
        IF \E i \in 1..Len(items) : items[i].key = k
        THEN LET it == items[CHOOSE i \in 1..Len(items) : items[i].key = k]
             IN  [w[k] EXCEPT !.notified = it.revision]
        ELSE w[k]]

\* watch.search.created_at < ten_min_ago
GraceFilterNone(items, t) == items

GraceFilter(items, t) ==
    LET old(it) == searches[it.key[1]].created_at < t - TEN_MIN
    IN  SelectSeq(items, old)

TruncateOffByOne(items) ==
    SubSeq(items, 1, Min(Len(items), MAX_NOTIFS_IN_UPDATE_PER_USER + 1))

\* watches = watches[:MAX_NOTIFS_IN_UPDATE_PER_USER]
Truncate(items) ==
    SubSeq(items, 1, Min(Len(items), MAX_NOTIFS_IN_UPDATE_PER_USER))

SendOutcomePcSwallow(fail) == "mark"

SendOutcomePcBlockedRaises(fail) == IF fail \in {"error", "blocked"} THEN "raised" ELSE "mark"

MarkedItemsAll(batch) == batch.eligible

MarkedItemsLatest(batch) ==
    [i \in 1..Len(batch.watches) |->
        [batch.watches[i] EXCEPT !.revision = Len(revs[batch.watches[i].key[2]])]]

\* [WatchRevisionsitem(hw_id=watch.id, revision_id=watch.current_revision.id)
\*  for watch in watches]: the watches of the truncated list, each with the
\* revision the query read as its current one
MarkedItems(batch) ==
    [i \in 1..Len(batch.watches) |->
        [key |-> batch.watches[i].key, revision |-> batch.watches[i].revision,
         old |-> batch.watches[i].old]]

\* the sending loop of bot.py: UserIsBlockedError breaks out of the loop and
\* the function returns; any other exception is re-raised
SendOutcomePc(fail) == IF fail = "error" THEN "raised" ELSE "mark"

Bump(d, k) == IF k \in DOMAIN d THEN [d EXCEPT ![k] = @ + 1] ELSE d @@ (k :> 1)

RECURSIVE BumpAll(_, _)
BumpAll(d, ks) ==
    IF ks = <<>> THEN d ELSE BumpAll(Bump(d, Head(ks)), Tail(ks))

NoBatch == [user |-> NoUser, eligible |-> <<>>, watches |-> <<>>, fail |-> "none",
            phase |-> "none", warned |-> FALSE]
NoHist == [pre |-> <<>>, sent |-> {}, blocked |-> {}, alerted |-> {},
           started |-> {}, users |-> {}, err |-> "none",
           hdr |-> {}, payload |-> {}, run |-> [u \in {"u1", "u2"} |-> 0],
           moved |-> {}]

\* _price_str: "Consultar" for a price of 0, else "$ <price> <currency>", in
\* bold unless told otherwise
PriceStr(val, bold) ==
    IF val[1] = 0 THEN <<"Consultar">> ELSE <<"$", val[1], val[2], bold>>

UpdatedEntrySwapped(it) ==
    [key |-> it.key,
     old |-> PriceStr(revs[it.key[2]][it.revision], FALSE),
     new |-> PriceStr(revs[it.key[2]][it.old], TRUE)]

\* the entry of notify_updated_housing for a watch:
\* _price_str(hw.old_revision, bold=False) -> _price_str(hw.current_revision)
UpdatedEntry(it) ==
    [key |-> it.key,
     old |-> PriceStr(revs[it.key[2]][it.old], FALSE),
     new |-> PriceStr(revs[it.key[2]][it.revision], TRUE)]

\* the entry of notify_new_housing for a watch: _price_str(hw.current_revision)
NewEntry(it) ==
    [key |-> it.key, old |-> <<>>, new |-> PriceStr(revs[it.key[2]][it.revision], TRUE)]

Entry(kind, it) == IF kind = "upd" THEN UpdatedEntry(it) ELSE NewEntry(it)

\* the head of a pass: the query is made and the loop is entered
StartPass(kind) ==
    /\ ntPc \in {"idle", "done", "raised"}
    /\ etlPc \in {"idle", "done"}
    /\ ntKind' = kind
    /\ ntQueue' = GetWatchesToNotify(kind)
    /\ ntBatch' = NoBatch
    /\ ntHist' = [NoHist EXCEPT !.pre = watch,
                    !.users = {GetWatchesToNotify(kind)[i].user :
                                  i \in 1..Len(GetWatchesToNotify(kind))},
                    !.run = IF kind = "new" /\ ntKind = "upd" /\ ntRuns > 0
                            THEN ntHist.run ELSE NoHist.run]
    /\ ntPc' = "loop"
    /\ UNCHANGED <<dbVars, etlVars, delivered>>

NotifyStart(kind) ==
    /\ ntRuns < MaxNotifyRuns
    /\ ntRuns' = ntRuns + 1
    /\ StartPass(kind)
    /\ UNCHANGED ntCycle
    /\ UNCHANGED sideVars

\* housing_searches_pipeline, run after run: the pass of the updates, then
\* the pass of the new housings, and so on; the count of the passes stops at
\* its bound
NotifyStartAgain(kind) ==
    /\ kind = IF ntRuns = 0 \/ ntKind = "new" THEN "upd" ELSE "new"
    /\ ntRuns' = Min(ntRuns + 1, MaxNotifyRuns)
    /\ StartPass(kind)
    /\ UNCHANGED ntCycle
    /\ UNCHANGED sideVars

\* one user's iteration up to the end of the sending loop: n messages are
\* sent, then the loop ends normally, on the blocked signal or on an error
NotifySend(n, fail) ==
    /\ ntPc = "loop" /\ ntQueue # <<>>
    /\ LET item   == Head(ntQueue)
           elig   == GraceFilter(item.watches, now)
           batch  == Truncate(elig)
           big    == ntKind = "new" /\ Len(elig) >= BIG_SEARCH
           nMsgs  == 1 + Len(batch) + (IF big THEN 1 ELSE 0)
           nSent  == Min(IF n > 0 THEN n - 1 ELSE 0, Len(batch))
           sentIt == SubSeq(batch, 1, nSent)
           keys   == [i \in 1..nSent |-> <<sentIt[i].key[1], sentIt[i].key[2],
                                           sentIt[i].revision>>]
       IN  /\ n \in 0..nMsgs
           /\ (fail = "none") <=> (n = nMsgs)
           /\ delivered' = BumpAll(delivered, keys)
           /\ ntBatch' = [user |-> item.user, eligible |-> elig, watches |-> batch,
                          fail |-> fail, phase |-> "sent", warned |-> big]
           /\ ntHist' = [ntHist EXCEPT
                           !.started = @ \cup {item.user},
                           !.sent = @ \cup {sentIt[i].key : i \in 1..nSent},
                           !.hdr = IF n > 0 THEN @ \cup {item.user} ELSE @,
                           !.payload = @ \cup {Entry(ntKind, sentIt[i]) : i \in 1..nSent},
                           !.run = [@ EXCEPT ![item.user] = @ + nSent],
                           !.alerted = IF Len(elig) > MAX_NOTIFS_IN_UPDATE_PER_USER
                                       THEN @ \cup {item.user} ELSE @,
                           !.blocked = IF fail = "blocked"
                                       THEN @ \cup {item.user} ELSE @,
                           !.err = IF fail = "error" THEN "send" ELSE @]
           /\ ntPc' = SendOutcomePc(fail)
    /\ UNCHANGED <<dbVars, etlVars, ntKind, ntQueue, ntRuns, ntCycle>>
    /\ UNCHANGED sideVars

\* the user has more eligible watches than the cap and alert_admin raises
NotifyAlertFail ==
    /\ ntPc = "loop" /\ ntQueue # <<>>
    /\ LET item == Head(ntQueue)
           elig == GraceFilter(item.watches, now)
       IN  /\ Len(elig) > MAX_NOTIFS_IN_UPDATE_PER_USER
           /\ ntBatch' = [user |-> item.user, eligible |-> elig, watches |-> <<>>,
                          fail |-> "error", phase |-> "alert_failed", warned |-> FALSE]
           /\ ntHist' = [ntHist EXCEPT !.started = @ \cup {item.user}, !.err = "alert"]
    /\ ntPc' = "raised"
    /\ UNCHANGED <<dbVars, etlVars, ntKind, ntQueue, ntRuns, delivered, ntCycle>>
    /\ UNCHANGED sideVars

\* update_notified_housing_watches succeeds for the iteration's watches
NotifyMark ==
    /\ ntPc = "mark"
    /\ watch' = UpdateNotified(watch, MarkedItems(ntBatch))
    /\ ntBatch' = [ntBatch EXCEPT !.phase = "marked"]
    /\ ntHist' = [ntHist EXCEPT
                    !.moved = @ \cup {ntBatch.watches[i].key :
                                         i \in {j \in 1..Len(ntBatch.watches) :
                                                  watch[ntBatch.watches[j].key].current
                                                      # ntBatch.watches[j].revision}}]
    /\ ntQueue' = Tail(ntQueue)
    /\ ntPc' = "loop"
    /\ UNCHANGED <<now, searches, last_search_at, revs, etlVars, ntKind, ntRuns,
                   delivered, ntCycle>>
    /\ UNCHANGED sideVars

\* update_notified_housing_watches raises
NotifyMarkFail ==
    /\ ntPc = "mark"
    /\ ntBatch' = [ntBatch EXCEPT !.phase = "mark_failed"]
    /\ ntHist' = [ntHist EXCEPT !.err = "mark"]
    /\ ntPc' = "raised"
    /\ UNCHANGED <<dbVars, etlVars, ntKind, ntQueue, ntRuns, delivered, ntCycle>>
    /\ UNCHANGED sideVars

\* the for loop is over
NotifyFinish ==
    /\ ntPc = "loop" /\ ntQueue = <<>>
    /\ ntPc' = "done"
    /\ UNCHANGED <<dbVars, etlVars, ntKind, ntQueue, ntBatch, ntRuns, delivered, ntHist,
                   ntCycle>>
    /\ UNCHANGED sideVars

\* the iterations of a pass in which nothing fails, and its end
NextNotifyOkStep ==
    \/ \E n \in 0..(MAX_NOTIFS_IN_UPDATE_PER_USER + 2) : NotifySend(n, "none")
    \/ NotifyMark
    \/ NotifyFinish

\* the passes when nothing fails
NextNotifyOk ==
    \/ \E kind \in {"upd", "new"} : NotifyStartAgain(kind)
    \/ NextNotifyOkStep

\* the iterations of a pass and its end
NextNotifyStep ==
    \/ \E n \in 0..(MAX_NOTIFS_IN_UPDATE_PER_USER + 2),
          fail \in {"none", "blocked", "error"} : NotifySend(n, fail)
    \/ NotifyMark
    \/ NotifyMarkFail
    \/ NotifyFinish

NextNotify ==
    \/ \E kind \in {"upd", "new"} : NotifyStart(kind)
    \/ NotifyAlertFail
    \/ NextNotifyStep

----------------------------------------------------------------------------
(* get_search_results of the provider connectors *)

Max(a, b) == IF a > b THEN a ELSE b

\* math.ceil(a / b)
Ceil(a, b) == (a + b - 1) \div b

\* len(l[1:stop]) for a list of n elements; stop is None or not negative
RestLen(n, stop) ==
    IF stop = None THEN Max(0, n - 1) ELSE Max(0, Min(n, stop) - 1)

\* what the first page of a search tells: the page urls (or cursors) it
\* lists, the first page included, the number of pages and of results it
\* announces, and the page size
Sites ==
    [listed : 0..MaxSitePages, total_pages : 0..MaxSitePages,
     total_items : 0..MaxItems, per_page : 1..2]

\* zonaprop.get_search_results: the first page, then
\* page_urls[1:min(max_pages or 1000, total_pages)]
ZonaPropPages(site, max_pages) ==
    LET max_page == Min(IF max_pages = None \/ max_pages = 0 THEN 1000 ELSE max_pages,
                        site.total_pages)
    IN  1 + RestLen(site.listed, max_page)

\* meli.get_search_results: the first page, then page_urls[1:max_pages]
MeliPages(site, max_pages) == 1 + RestLen(site.listed, max_pages)

\* blueground.get_search_results: the first page, then the pages
\* 2..min(max_pages, ceil(total_items / items_per_page))
BluegroundPages(site, max_pages) ==
    LET pages == Ceil(site.total_items, site.per_page)
        last  == IF max_pages = None THEN pages ELSE Min(max_pages, pages)
    IN  1 + Max(0, last - 1)

\* blueground._fetch_page_async: "offset": str((page or 0) * MAX_PAGE_SIZE)
BluegroundOffset(page) == (IF page = None THEN 0 ELSE page) * MAX_PAGE_SIZE

\* the offsets blueground.get_search_results asks for: _fetch_page_async(url)
\* for the first page, then page = 2, ..., last_page_num
BluegroundOffsets(site, max_pages) ==
    LET n == BluegroundPages(site, max_pages)
    IN  [i \in 1..n |-> BluegroundOffset(IF i = 1 THEN None ELSE i)]

\* airbnb.get_search_results: del payload, max_pages; the first page, then
\* every cursor of page_cursors[1:]
AirbnbPages(site, max_pages) == 1 + RestLen(site.listed, None)

\* get_provider_by_name(name).get_search_results(url, payload, max_pages=k):
\* the number of result pages it fetches
PagesFetched(provider, site, max_pages) ==
    CASE provider = "ZonaProp"     -> ZonaPropPages(site, max_pages)
      [] provider = "MercadoLibre" -> MeliPages(site, max_pages)
      [] provider = "Airbnb"       -> AirbnbPages(site, max_pages)
      [] provider = "Blueground"   -> BluegroundPages(site, max_pages)

GetSearchResults ==
    /\ pg.provider \in Adapters
    /\ pg.fetched = None
    /\ pg' = [pg EXCEPT !.fetched = PagesFetched(pg.provider, pg.site, pg.max_pages),
                        !.offsets = IF pg.provider = "Blueground"
                                    THEN BluegroundOffsets(pg.site, pg.max_pages)
                                    ELSE <<>>]
    /\ UNCHANGED <<dbVars, etlVars, ntVars, crReq, orch, chat>>

\* the state of the orchestrator when no pipeline run is modelled
NoOrch == [kind |-> "none"]

\* the state of the conversation when no conversation is modelled
NoChat == [status |-> "none"]

----------------------------------------------------------------------------
(* create_search of chatbot/bot.py: the initial store of a new search *)

\* the passes of the latest ETL run are over
CycleOver ==
    /\ etlPc \in {"idle", "done"}
    /\ ntPc \in {"idle", "done", "raised"}
    /\ ntCycle.new = etlRuns

\* the search was inserted a moment ago and the provider returned posts:
\* store_housing_posts(posts, created_search, as_notified=True)
CreateSearchStore(s, posts) ==
    /\ CycleOver
    /\ searches[s].created_at = now
    /\ last_search_at[s] = None
    /\ posts # <<>>
    /\ LET res == UpsertHousing(revs, Dedup(posts))
           ids == {res.rows[i].id : i \in 1..Len(res.rows)}
       IN  /\ \A h \in DOMAIN revs : Len(revs[h]) < MaxRevs \/ res.revs[h] = revs[h]
           /\ revs' = res.revs
           /\ watch' = UpsertWatches(watch, res.revs, s, ids, TRUE)
           /\ seeded' = SeedMarks(seeded, watch, res.revs, s, ids)
    /\ last_search_at' = [last_search_at EXCEPT ![s] = now]
    /\ UNCHANGED <<now, searches, ntVars, etlPc, etlQueue, etlRuns, etlUnit, etlPrev,
                   etlElig, etlOk, etlFailed, etlReport, etlAttempt, etlTried>>
    /\ UNCHANGED sideVars

----------------------------------------------------------------------------
(* create_search of chatbot/bot.py, request by request: the handler of a
   message with a link gets the user (get_or_create_user) and calls
   create_search, which gives way to the other handlers at each await *)

\* the links users send: a site, a path and a query string
SearchUrls ==
    {[site |-> "ZonaProp", path |-> "a", query |-> ""],
     [site |-> "ZonaProp", path |-> "a", query |-> "q"],
     [site |-> "Airbnb", path |-> "a", query |-> "q"],
     [site |-> "other", path |-> "a", query |-> ""]}

\* get_provider_by_url: the connector whose is_valid_search_url accepts the link
GetProviderByUrl(url) == IF url.site \in Adapters THEN url.site ELSE "none"

\* clean_search_url: url.split("?")[0].split("#")[0]
CleanSearchUrl(url) == [url EXCEPT !.query = ""]

StoredUrlRaw(url) == url

\* the url create_search looks up and inserts: cleaned for ZonaProp and
\* MercadoLibre, as sent for the other providers
StoredUrl(url) ==
    IF GetProviderByUrl(url) \in {"ZonaProp", "MercadoLibre"}
    THEN CleanSearchUrl(url) ELSE url

\* db.get_housing_search_by_url: the user's search for the provider and url
SearchByUrl(user, provider, url) ==
    {s \in DOMAIN searches :
        searches[s].user = user /\ searches[s].provider = provider /\ searches[s].url = url}

\* db.insert_housing_search is refused when the store already has a search
\* of the user for the provider and url
InsertConflict(user, provider, url) == SearchByUrl(user, provider, url) # {}

\* the searches the user has when upsert_user answers
UserSearches(user) == {s \in DOMAIN searches : searches[s].user = user}

NewReq(user, url) ==
    [user |-> user, url |-> url, pc |-> "new", snap |-> 0, stored |-> url,
     provider |-> "none", posts |-> <<>>, sid |-> 0, outcome |-> "none",
     view |-> <<>>, rows |-> <<>>, fetch |-> "none", total |-> None]

\* get_or_create_user: the user comes back with the searches it has now
CrUpsertUser(p) ==
    /\ crReq[p].pc = "new"
    /\ crReq' = [crReq EXCEPT ![p].pc = "got_user",
                              ![p].snap = Cardinality(UserSearches(crReq[p].user))]
    /\ UNCHANGED <<dbVars, etlVars, ntVars, pg, orch, chat>>

\* create_search up to the answer of get_housing_search_by_url: the link is
\* recognised and cleaned, the quota is tested on the user as it was read,
\* and the store is asked for a search with the same url
CrCheck(p) ==
    /\ crReq[p].pc = "got_user"
    /\ LET r        == crReq[p]
           provider == GetProviderByUrl(r.url)
           url      == StoredUrl(r.url)
           outcome  == IF provider = "none" THEN "unknown_site"
                       ELSE IF r.snap >= MAX_FREE_SEARCHES THEN "quota"
                       ELSE IF SearchByUrl(r.user, provider, url) # {} THEN "exists"
                       ELSE "none"
       IN  crReq' = [crReq EXCEPT ![p].provider = provider, ![p].stored = url,
                                  ![p].outcome = outcome,
                                  ![p].pc = IF outcome = "none" THEN "fetch" ELSE "done"]
    /\ UNCHANGED <<dbVars, etlVars, ntVars, pg, orch, chat>>

\* the numbers of results a provider may report: none, the most that
\* create_search accepts, and one more
TotalResults == {0, EXCESSIVE_RESULTS_ERROR, EXCESSIVE_RESULTS_ERROR + 1}

FetchOutcomeRaiseGivesUp(total) ==
    IF total = None THEN "fetch_raised"
    ELSE IF total = 0 THEN "no_results"
    ELSE IF total > EXCESSIVE_RESULTS_ERROR THEN "too_many"
    ELSE "none"

\* what create_search does with total_results: None after the fetch raised
FetchOutcome(total) ==
    IF total = None THEN "none"
    ELSE IF total = 0 THEN "no_results"
    ELSE IF total > EXCESSIVE_RESULTS_ERROR THEN "too_many"
    ELSE "none"

\* provider.get_search_results and the replies that depend on its result: it
\* raises (total None: the creation goes on without posts), finds nothing or
\* too much (the creation is given up), or returns posts
CrFetch(p, total, posts) ==
    /\ crReq[p].pc = "fetch"
    /\ posts # <<>> <=> (total # None /\ FetchOutcome(total) = "none")
    /\ crReq' = [crReq EXCEPT ![p].posts = posts,
                              ![p].total = total,
                              ![p].fetch = IF total = None THEN "raised" ELSE "returned",
                              ![p].outcome = FetchOutcome(total),
                              ![p].pc = IF FetchOutcome(total) = "none"
                                        THEN "insert" ELSE "done"]
    /\ UNCHANGED <<dbVars, etlVars, ntVars, pg, orch, chat>>

\* db.insert_housing_search: the search is inserted, or the store refuses it
CrInsert(p) ==
    /\ crReq[p].pc = "insert"
    /\ LET r   == crReq[p]
           sid == Len(searches) + 1
       IN  IF InsertConflict(r.user, r.provider, r.stored)
           THEN /\ crReq' = [crReq EXCEPT ![p].outcome = "insert_raised", ![p].pc = "done"]
                /\ UNCHANGED <<searches, last_search_at, watch, seeded>>
           ELSE /\ searches' = Append(searches,
                                      [user |-> r.user, provider |-> r.provider,
                                       url |-> r.stored, asked |-> r.url,
                                       created_at |-> now])
                /\ last_search_at' = Append(last_search_at, None)
                /\ watch' = [k \in DOMAIN watch \cup ({sid} \X PostIds) |->
                                IF k \in DOMAIN watch THEN watch[k] ELSE NoWatch]
                /\ seeded' = [k \in DOMAIN seeded \cup ({sid} \X PostIds) |->
                                 IF k \in DOMAIN seeded THEN seeded[k] ELSE 0]
                /\ crReq' = [crReq EXCEPT ![p].sid = sid,
                                          ![p].outcome = "created",
                                          ![p].pc = IF r.posts # <<>> THEN "store"
                                                    ELSE "done"]
    /\ UNCHANGED <<now, revs, ntVars, pg, orch, chat, etlPc, etlQueue, etlRuns, etlUnit, etlPrev,
                   etlElig, etlOk, etlFailed, etlReport, etlAttempt, etlTried>>

\* store_housing_posts(posts, created_search, as_notified=True)
CrStore(p) ==
    /\ crReq[p].pc = "store"
    /\ LET s   == crReq[p].sid
           res == UpsertHousing(revs, Dedup(crReq[p].posts))
           ids == {res.rows[i].id : i \in 1..Len(res.rows)}
       IN  /\ revs' = res.revs
           /\ watch' = UpsertWatches(watch, res.revs, s, ids, TRUE)
           /\ seeded' = SeedMarks(seeded, watch, res.revs, s, ids)
           /\ last_search_at' = [last_search_at EXCEPT ![s] = now]
    /\ crReq' = [crReq EXCEPT ![p].pc = "done"]
    /\ UNCHANGED <<now, searches, ntVars, pg, orch, chat, etlPc, etlQueue, etlRuns, etlUnit,
                   etlPrev, etlElig, etlOk, etlFailed, etlReport, etlAttempt, etlTried>>

\* store_housing_posts raises
CrStoreFail(p) ==
    /\ crReq[p].pc = "store"
    /\ crReq' = [crReq EXCEPT ![p].outcome = "store_raised", ![p].pc = "done"]
    /\ UNCHANGED <<dbVars, etlVars, ntVars, pg, orch, chat>>

\* store_housing_posts of create_search, call by call.  The call is entered:
\* the duplicates are removed and the posts are serialised
CrStoreBegin(p) ==
    /\ crReq[p].pc = "store"
    /\ crReq' = [crReq EXCEPT ![p].pc = "store_housing", ![p].view = revs]
    /\ UNCHANGED <<dbVars, etlVars, ntVars, pg, orch, chat>>

UpsertViewAtCall(p) == crReq[p].view

\* the state of the housings that upsert_housing_from_search decides on: the
\* query is one statement of the store, it reads the state it writes to
UpsertView(p) == revs

\* the revisions a query that decided on view adds to the logs rv
ApplyUpsert(rv, view, res) ==
    [h \in DOMAIN rv |->
        rv[h] \o SubSeq(res.revs[h], Len(view[h]) + 1, Len(res.revs[h]))]

\* DB 1 of 2 of create_search's store succeeds
CrUpsertHousing(p) ==
    /\ crReq[p].pc = "store_housing"
    /\ LET view == UpsertView(p)
           res  == UpsertHousing(view, Dedup(crReq[p].posts))
           new  == ApplyUpsert(revs, view, res)
       IN  /\ \A h \in DOMAIN revs : Len(revs[h]) < MaxRevs \/ new[h] = revs[h]
           /\ revs' = new
           /\ crReq' = [crReq EXCEPT ![p].pc = "store_watches", ![p].rows = res.rows]
    /\ UNCHANGED <<now, searches, last_search_at, watch, etlVars, ntVars, pg, orch, chat>>

\* DB 1 of 2 of create_search's store raises
CrUpsertHousingFail(p) ==
    /\ crReq[p].pc = "store_housing"
    /\ crReq' = [crReq EXCEPT ![p].outcome = "store_raised", ![p].pc = "done"]
    /\ UNCHANGED <<dbVars, etlVars, ntVars, pg, orch, chat>>

\* DB 2 of 2 of create_search's store succeeds: as_notified=True
CrUpsertWatches(p) ==
    /\ crReq[p].pc = "store_watches"
    /\ LET s   == crReq[p].sid
           ids == {crReq[p].rows[i].id : i \in 1..Len(crReq[p].rows)}
       IN  /\ watch' = UpsertWatches(watch, revs, s, ids, TRUE)
           /\ seeded' = SeedMarks(seeded, watch, revs, s, ids)
           /\ last_search_at' = [last_search_at EXCEPT ![s] = now]
    /\ crReq' = [crReq EXCEPT ![p].pc = "done"]
    /\ UNCHANGED <<now, searches, revs, ntVars, pg, orch, chat, etlPc, etlQueue, etlRuns, etlUnit,
                   etlPrev, etlElig, etlOk, etlFailed, etlReport, etlAttempt, etlTried>>

\* DB 2 of 2 of create_search's store raises
CrUpsertWatchesFail(p) ==
    /\ crReq[p].pc = "store_watches"
    /\ crReq' = [crReq EXCEPT ![p].outcome = "store_raised", ![p].pc = "done"]
    /\ UNCHANGED <<dbVars, etlVars, ntVars, pg, orch, chat>>

\* an ETL run of the pipeline's process while the bot's create_search stores
\* the posts of a search it has just inserted
NextStores ==
    \/ \E d \in {None, START_DELTA} : EtlStart(d)
    \/ NextEtlUnit
    \/ \E p \in DOMAIN crReq :
          \/ CrStoreBegin(p)
          \/ CrUpsertHousing(p)
          \/ CrUpsertHousingFail(p)
          \/ CrUpsertWatches(p)
          \/ CrUpsertWatchesFail(p)

NextCreate ==
    \E p \in 1..NReqs :
        \/ CrUpsertUser(p)
        \/ CrCheck(p)
        \/ \E total \in TotalResults \cup {None}, posts \in Batches :
              CrFetch(p, total, posts)
        \/ CrInsert(p)
        \/ CrStore(p)
        \/ CrStoreFail(p)

----------------------------------------------------------------------------
(* The scheduled pipeline: the ETL, then the pass of the updates, then the
   pass of the new housings, every two hours.  The units of the ETL may fail;
   the failures of the sends and of the marking are followed in SpecNotify *)

\* two hours pass between two runs of the pipeline
Tick ==
    /\ CycleOver
    /\ now < 2 + MaxTicks * PERIOD
    /\ now' = now + PERIOD
    /\ UNCHANGED <<searches, last_search_at, revs, watch, etlVars, ntVars>>
    /\ UNCHANGED sideVars

\* etl_searches: the scheduled ETL, with start_delta
PipelineEtl ==
    /\ CycleOver
    /\ EtlStart(START_DELTA)

\* notify_revised_housing once the ETL is over, whether it raised or not,
\* then notify_new_housing once that pass is over
PipelinePass(kind) ==
    /\ etlPc = "done"
    /\ ntCycle[kind] < etlRuns
    /\ kind = "new" => ntCycle.upd = etlRuns
    /\ ntCycle' = [ntCycle EXCEPT ![kind] = etlRuns]
    /\ ntRuns' = Min(ntRuns + 1, MaxNotifyRuns)
    /\ StartPass(kind)
    /\ UNCHANGED sideVars

NextPipeline ==
    \/ PipelineEtl
    \/ NextEtlUnit
    \/ \E kind \in {"upd", "new"} : PipelinePass(kind)
    \/ NextNotifyOkStep
    \/ \E s \in DOMAIN searches, posts \in Batches : CreateSearchStore(s, posts)
    \/ Tick

----------------------------------------------------------------------------
(* The conversation state of chatbot/state.py and the two handlers of bot.py
   that an incoming message starting with a link matches: url_handler
   (pattern ^\s*https?://) and default_handler (pattern ^\s*[^/!]) *)

ConversationStatus == {"IDLE", "CREATING_SEARCH", "DELETING_SEARCH", "SENDING_FEEDBACK"}

StatusExpiredAtLimit(c, t) == t >= c.last_change_at + EXPIRATION_TIMEDELTA

\* datetime.now(tz=UTC) > self._last_change_at + EXPIRATION_TIMEDELTA
StatusExpired(c, t) == t > c.last_change_at + EXPIRATION_TIMEDELTA

\* the status getter: an expired status is reset to IDLE, with the timestamp
AfterRead(c, t) ==
    IF StatusExpired(c, t) THEN [c EXCEPT !.status = "IDLE", !.last_change_at = t] ELSE c

\* the status setter
SetStatus(c, status, t) == [c EXCEPT !.status = status, !.last_change_at = t]

\* create_search is entered: a link of no provider is answered and left, else
\* the conversation is set to IDLE, before the first await
EnterCreateSearch(c, t) ==
    LET called == [c EXCEPT !.calls = @ + 1]
    IN  IF c.known THEN SetStatus(called, "IDLE", t) ELSE called

\* the message reaches the bot and its handlers are called
MessageArrives ==
    /\ chat.urlPc = "none"
    /\ chat' = [chat EXCEPT !.urlPc = "start", !.defPc = "start"]
    /\ UNCHANGED <<dbVars, etlVars, ntVars, pg, crReq, orch>>

\* url_handler up to the answer of get_or_create_user
UrlHandlerAwait ==
    /\ chat.urlPc = "start"
    /\ chat' = [chat EXCEPT !.urlPc = "ready"]
    /\ UNCHANGED <<dbVars, etlVars, ntVars, pg, crReq, orch>>

\* url_handler reads the status: not IDLE, the link is ignored; IDLE,
\* create_search is called
UrlHandlerDecide ==
    /\ chat.urlPc = "ready"
    /\ LET c == AfterRead(chat, now)
       IN  chat' = IF c.status # "IDLE" THEN [c EXCEPT !.urlPc = "done"]
                   ELSE [EnterCreateSearch(c, now) EXCEPT !.urlPc = "creating"]
    /\ UNCHANGED <<dbVars, etlVars, ntVars, pg, crReq, orch>>

\* the create_search that url_handler called returns
UrlHandlerEnd ==
    /\ chat.urlPc = "creating"
    /\ chat' = [chat EXCEPT !.urlPc = "done"]
    /\ UNCHANGED <<dbVars, etlVars, ntVars, pg, crReq, orch>>

\* the handlers of a message are awaited one after the other, in the order
\* of their registration, or they run at the same time
DefaultHandlerMayRun == chat.dispatch = "concurrent" \/ chat.urlPc = "done"

\* default_handler up to the answer of get_or_create_user
DefaultHandlerAwait ==
    /\ chat.defPc = "start"
    /\ DefaultHandlerMayRun
    /\ chat' = [chat EXCEPT !.defPc = "ready"]
    /\ UNCHANGED <<dbVars, etlVars, ntVars, pg, crReq, orch>>

\* default_handler matches on the status
DefaultHandlerDecide ==
    /\ chat.defPc = "ready"
    /\ LET c == AfterRead(chat, now)
       IN  chat' = CASE c.status = "IDLE" -> [c EXCEPT !.defPc = "done"]
                     [] c.status = "CREATING_SEARCH" ->
                            [EnterCreateSearch(c, now) EXCEPT !.defPc = "creating"]
                     [] c.status = "DELETING_SEARCH" -> [c EXCEPT !.defPc = "deleting"]
                     [] c.status = "SENDING_FEEDBACK" -> [c EXCEPT !.defPc = "feedback"]
    /\ UNCHANGED <<dbVars, etlVars, ntVars, pg, crReq, orch>>

\* what default_handler called returns: create_search; delete_search_by_url,
\* which sets IDLE when it deleted a search; process_feedback, which sets IDLE
DefaultHandlerEnd(deleted) ==
    /\ chat.defPc \in {"creating", "deleting", "feedback"}
    /\ deleted => chat.defPc = "deleting" /\ chat.known
    /\ chat' = IF chat.defPc = "feedback" \/ deleted
               THEN [SetStatus(chat, "IDLE", now) EXCEPT !.defPc = "done"]
               ELSE [chat EXCEPT !.defPc = "done"]
    /\ UNCHANGED <<dbVars, etlVars, ntVars, pg, crReq, orch>>

\* create_housing_search_handler answers another message of the user, /crear
CreateCommand ==
    /\ chat.cmds < MaxCommands
    /\ chat' = [SetStatus(chat, "CREATING_SEARCH", now) EXCEPT !.cmds = @ + 1]
    /\ UNCHANGED <<dbVars, etlVars, ntVars, pg, crReq, orch>>

\* some code reads conversation_states[user].status
ReadStatus ==
    /\ chat.reads < MaxCommands + 1
    /\ chat' = [AfterRead(chat, now) EXCEPT !.got = AfterRead(chat, now).status,
                                            !.reads = @ + 1]
    /\ UNCHANGED <<dbVars, etlVars, ntVars, pg, crReq, orch>>

\* time passes: six hours, or ten minutes more
ChatTick(d) ==
    /\ now + d <= MaxChatNow
    /\ now' = now + d
    /\ UNCHANGED <<searches, last_search_at, revs, watch, etlVars, ntVars, sideVars>>

NextChat ==
    \/ MessageArrives
    \/ UrlHandlerAwait
    \/ UrlHandlerDecide
    \/ UrlHandlerEnd
    \/ DefaultHandlerAwait
    \/ DefaultHandlerDecide
    \/ \E deleted \in BOOLEAN : DefaultHandlerEnd(deleted)
    \/ CreateCommand
    \/ ReadStatus
    \/ \E d \in {36, 37} : ChatTick(d)

----------------------------------------------------------------------------
(* An ETL run that is started while a notifier pass may be in flight: the
   two are separate functions over the same store *)

\* etl_housing_for_all_searches is called, by hand or by a scheduler
EtlStartAnyTime(start_delta) ==
    /\ etlPc \in {"idle", "done"}
    /\ etlRuns < MaxEtlRuns
    /\ etlRuns' = etlRuns + 1
    /\ StartRun(start_delta)
    /\ etlAttempt' = IF start_delta = None THEN 0 ELSE 1
    /\ etlTried' = {}
    /\ UNCHANGED <<dbVars, ntVars, etlUnit, etlPrev, seeded>>
    /\ UNCHANGED sideVars

NextRace ==
    \/ \E d \in {None, START_DELTA} : EtlStartAnyTime(d)
    \/ NextEtlUnit
    \/ NextNotifyOk

----------------------------------------------------------------------------
(* One run of the pipeline under each of its three orchestrators: the job
   housing_searches_pipeline (pipelines/jobs), the DAG of etl/dags and the DAG
   of qm_airflow/dags.  A task is tried up to three times (tenacity's
   stop_after_attempt(3) in the job, retries=2 in the DAGs) *)

Tasks == {"etl", "upd", "new"}

\* etl_task >> notify_revised_task >> notify_new_task
Upstream(t) == IF t = "upd" THEN "etl" ELSE "upd"

\* the job wraps every phase in try/except and goes on; the DAG of etl/dags
\* gives both notifier tasks TriggerRule.ALL_DONE; the DAG of qm_airflow
\* gives it to notify_new_revisions only, so that its notify_new_housing
\* keeps the default rule, all_success
TriggerRule(kind, t) ==
    IF kind = "qm_dag" /\ t = "new" THEN "all_success" ELSE "all_done"

\* the job and the DAG of etl/dags call notifier.notify_revised_sync, which
\* notifier.py does not define: their task of the updates raises
\* AttributeError at once; the DAG of qm_airflow calls notify_new_revisions_sync
HasPass(kind, t) == t = "new" \/ kind = "qm_dag"

TaskOver == {"success", "failed", "upstream_failed"}

\* a task that raised is always tried again
AfterRaiseAlways(tries) == "retry"

\* the state a task that raised goes to
AfterRaise(tries) == IF tries < MAX_ATTEMPTS THEN "retry" ELSE "failed"

TaskReady(t) ==
    /\ orch.state[t] \in {"none", "retry"}
    /\ \A o \in Tasks : orch.state[o] # "running"
    /\ t # "etl" =>
          /\ orch.state[Upstream(t)] \in TaskOver
          /\ TriggerRule(orch.kind, t) = "all_success" => orch.state[Upstream(t)] = "success"

\* the ETL task is started: etl_housing_for_all_searches_sync(start_delta)
OrchStartEtl ==
    /\ TaskReady("etl")
    /\ StartRun(START_DELTA)
    /\ etlAttempt' = orch.tries["etl"] + 1
    /\ etlTried' = etlTried \cup etlFailed
    /\ orch' = [orch EXCEPT !.state["etl"] = "running", !.tries["etl"] = @ + 1]
    /\ UNCHANGED <<dbVars, ntVars, pg, crReq, chat, etlRuns, etlUnit, etlPrev, seeded>>

\* a notifier task is started and its pass begins
OrchStartPass(t) ==
    /\ t \in {"upd", "new"}
    /\ TaskReady(t)
    /\ HasPass(orch.kind, t)
    /\ StartPass(t)
    /\ ntRuns' = Min(ntRuns + 1, MaxNotifyRuns)
    /\ orch' = [orch EXCEPT !.state[t] = "running", !.tries[t] = @ + 1]
    /\ UNCHANGED <<ntCycle, pg, crReq, chat>>

\* the task of the updates is started and raises AttributeError
OrchStartNoPass(t) ==
    /\ t \in {"upd", "new"}
    /\ TaskReady(t)
    /\ ~HasPass(orch.kind, t)
    /\ orch' = [orch EXCEPT !.state[t] = AfterRaise(orch.tries[t] + 1), !.tries[t] = @ + 1]
    /\ UNCHANGED <<dbVars, etlVars, ntVars, pg, crReq, chat>>

\* the function of a running task returns or raises
OrchEnd(t) ==
    /\ orch.state[t] = "running"
    /\ IF t = "etl" THEN etlPc = "done" ELSE ntPc \in {"done", "raised"}
    /\ LET raised == IF t = "etl" THEN EtlRaised ELSE ntPc = "raised"
       IN  orch' = [orch EXCEPT !.state[t] = IF raised THEN AfterRaise(orch.tries[t])
                                             ELSE "success"]
    /\ UNCHANGED <<dbVars, etlVars, ntVars, pg, crReq, chat>>

\* a task whose rule is all_success and whose upstream task failed is not run
OrchSkip(t) ==
    /\ t # "etl"
    /\ orch.state[t] = "none"
    /\ TriggerRule(orch.kind, t) = "all_success"
    /\ orch.state[Upstream(t)] \in {"failed", "upstream_failed"}
    /\ orch' = [orch EXCEPT !.state[t] = "upstream_failed"]
    /\ UNCHANGED <<dbVars, etlVars, ntVars, pg, crReq, chat>>

NextOrch ==
    \/ OrchStartEtl
    \/ \E t \in Tasks : OrchStartPass(t)
    \/ \E t \in Tasks : OrchStartNoPass(t)
    \/ \E t \in Tasks : OrchEnd(t)
    \/ \E t \in Tasks : OrchSkip(t)
    \/ EtlFetchRetry
    \/ FetchExhausted /\ EtlFetchFail
    \/ \E posts \in Batches : EtlUpsertHousing(posts)
    \/ EtlUpsertHousingFail
    \/ EtlUpsertWatches
    \/ EtlUpsertWatchesFail
    \/ EtlFinish
    \/ NextNotifyStep

----------------------------------------------------------------------------

\* no provider call, no create_search request and no pipeline run is under way
SideIdle ==
    /\ pg = NoFetch
    /\ crReq = <<>>
    /\ orch = NoOrch
    /\ chat = NoChat

NtIdle ==
    /\ ntPc = "idle" /\ ntKind = "upd" /\ ntQueue = <<>> /\ ntRuns = 0
    /\ ntBatch = NoBatch
    /\ delivered = <<>>
    /\ ntHist = NoHist
    /\ ntCycle = [upd |-> 0, new |-> 0]

EtlIdle ==
    /\ etlPc = "idle" /\ etlQueue = <<>> /\ etlRuns = 0
    /\ etlUnit = NoUnit /\ etlPrev = NoPrev
    /\ etlElig = {} /\ etlOk = {} /\ etlFailed = {} /\ etlReport = 0
    /\ etlAttempt = 0 /\ etlTried = {}
    /\ seeded = [k \in DOMAIN watch |-> 0]

\* the searches exist (created while the provider was failing, so nothing is
\* stored for them yet); the last one was created a moment ago, and the one
\* before it may name a provider that has no connector
Init ==
    /\ now = 2
    /\ \E p \in {"ZonaProp", "Unknown"} :
         searches = [s \in 1..(NSearches + 1) |->
                       [user |-> IF s = NSearches THEN "u2" ELSE "u1",
                        provider |-> IF s = NSearches THEN p ELSE "ZonaProp",
                        created_at |-> IF s = NSearches + 1 THEN 2 ELSE 0]]
    /\ last_search_at = [s \in 1..(NSearches + 1) |-> None]
    /\ revs = [h \in PostIds |-> <<>>]
    /\ watch = [k \in (1..(NSearches + 1)) \X PostIds |-> NoWatch]
    /\ EtlIdle
    /\ NtIdle
    /\ SideIdle

\* a store in which the revision engine has left pending watches: user u1
\* watches k1 housings and u2 k2, every housing has had a price change, and a
\* user's first j watches were created before it (so they wait as updates)
\* and the other ones after it (so they wait as new housings).  User u1 has
\* also created search 3 a moment ago; its watch of housing 1, if it has one,
\* is pending too (etl_housing_for_search has been called on it directly).
\* Either u2 has watches or search 3 has one
InitNotify ==
    /\ now = 2
    /\ searches = [s \in 1..3 |->
                     [user |-> IF s = 2 THEN "u2" ELSE "u1", provider |-> "ZonaProp",
                      created_at |-> IF s = 3 THEN 2 ELSE 0]]
    /\ last_search_at = [s \in 1..3 |-> 1]
    /\ revs = [h \in 1..MaxPending1 |-> <<<<100, "USD">>, <<90, "USD">>>>]
    /\ \E k1 \in 0..MaxPending1, k2 \in 0..MaxPending2, y \in {None, 0, 1} :
         \E j1 \in 0..k1, j2 \in 0..k2 :
           /\ y = None \/ k2 = 0
           /\ watch = [k \in (1..3) \X (1..MaxPending1) |->
                         LET n == IF k[1] = 1 THEN k1 ELSE k2
                             j == IF k[1] = 1 THEN j1 ELSE j2
                         IN  IF k[1] = 3
                             THEN IF k[2] = 1 /\ y # None
                                  THEN [notified |-> y, current |-> 2]
                                  ELSE NoWatch
                             ELSE IF k[2] > n THEN NoWatch
                             ELSE [notified |-> IF k[2] <= j THEN 1 ELSE 0, current |-> 2]]
    /\ EtlIdle
    /\ NtIdle
    /\ SideIdle

\* user u1 has an old search, for which nothing is stored yet, and has just
\* created a second one
InitPipeline ==
    /\ now = 2
    /\ searches = [s \in 1..2 |->
                     [user |-> "u1", provider |-> "ZonaProp",
                      created_at |-> IF s = 2 THEN 2 ELSE 0]]
    /\ last_search_at = [s \in 1..2 |-> None]
    /\ revs = [h \in PostIds |-> <<>>]
    /\ watch = [k \in (1..2) \X PostIds |-> NoWatch]
    /\ EtlIdle
    /\ NtIdle
    /\ SideIdle

\* a store some hours old: every search is older than ten minutes or was
\* created a moment ago, and was never fetched, or was last fetched longer
\* ago than start_delta, exactly start_delta ago, or a moment ago
InitSelect ==
    /\ now = 12
    /\ \E c \in [1..(NSearches + 1) -> {0, 12}] :
         searches = [s \in 1..(NSearches + 1) |->
                       [user |-> "u1", provider |-> "ZonaProp", created_at |-> c[s]]]
    /\ last_search_at \in [1..(NSearches + 1) -> {None, 2, 3, 12}]
    /\ \A s \in DOMAIN searches :
         last_search_at[s] = None \/ last_search_at[s] >= searches[s].created_at
    /\ revs = [h \in PostIds |-> <<>>]
    /\ watch = [k \in (1..(NSearches + 1)) \X PostIds |-> NoWatch]
    /\ EtlIdle
    /\ NtIdle
    /\ SideIdle

\* a run of the pipeline is due, under one of the three orchestrators: the
\* user's search was last fetched twelve hours ago; the new price of housing
\* 1 and the new housing 2 have not been notified yet
InitOrch ==
    /\ now = 14
    /\ searches = <<[user |-> "u1", provider |-> "ZonaProp", created_at |-> 0]>>
    /\ last_search_at = <<2>>
    /\ revs = [h \in PostIds |-> IF h = 1 THEN <<<<100, "USD">>, <<100, "ARS">>>>
                                           ELSE <<<<100, "USD">>>>]
    /\ watch = [k \in {1} \X PostIds |->
                  IF k[2] = 1 THEN [notified |-> 1, current |-> 2]
                              ELSE [notified |-> 0, current |-> 1]]
    /\ EtlIdle
    /\ NtIdle
    /\ pg = NoFetch
    /\ crReq = <<>>
    /\ chat = NoChat
    /\ \E kind \in {"job", "etl_dag", "qm_dag"} :
         orch = [kind |-> kind, state |-> [t \in Tasks |-> "none"],
                 tries |-> [t \in Tasks |-> 0]]

\* an empty store, and users about to send links
InitCreate ==
    /\ now = 2
    /\ searches = <<>> /\ last_search_at = <<>> /\ watch = <<>>
    /\ revs = [h \in PostIds |-> <<>>]
    /\ EtlIdle
    /\ NtIdle
    /\ pg = NoFetch
    /\ orch = NoOrch
    /\ chat = NoChat
    /\ \E us \in [1..NReqs -> {"u1", "u2"}], ls \in [1..NReqs -> SearchUrls] :
         crReq = [p \in 1..NReqs |-> NewReq(us[p], ls[p])]

\* a user who owns all but one of the searches the free tier allows, and
\* users about to send links
InitQuota ==
    /\ now = 2
    /\ searches = [i \in 1..(MAX_FREE_SEARCHES - 1) |->
                     [user |-> "u1", provider |-> "MercadoLibre",
                      url |-> [site |-> "MercadoLibre", path |-> "a", query |-> ""],
                      asked |-> [site |-> "MercadoLibre", path |-> "a", query |-> ""],
                      created_at |-> 0]]
    /\ last_search_at = [i \in 1..(MAX_FREE_SEARCHES - 1) |-> None]
    /\ watch = [k \in (1..(MAX_FREE_SEARCHES - 1)) \X PostIds |-> NoWatch]
    /\ revs = [h \in PostIds |-> <<>>]
    /\ EtlIdle
    /\ NtIdle
    /\ pg = NoFetch
    /\ orch = NoOrch
    /\ chat = NoChat
    /\ \E us \in [1..NReqs -> {"u1", "u2"}], ls \in [1..NReqs -> SearchUrls] :
         crReq = [p \in 1..NReqs |-> NewReq(us[p], ls[p])]

\* a user's conversation in any status, set a moment ago, and a message with
\* a link, of a provider or not, that has not reached the bot yet
InitChat ==
    /\ now = 2
    /\ searches = <<>> /\ last_search_at = <<>> /\ watch = <<>>
    /\ revs = [h \in PostIds |-> <<>>]
    /\ EtlIdle
    /\ NtIdle
    /\ pg = NoFetch
    /\ crReq = <<>>
    /\ orch = NoOrch
    /\ \E status \in ConversationStatus, known \in BOOLEAN,
          dispatch \in {"in_order", "concurrent"} :
         chat = [status |-> status, last_change_at |-> 2, known |-> known,
                 dispatch |-> dispatch, urlPc |-> "none", defPc |-> "none",
                 calls |-> 0, cmds |-> 0, got |-> "none", reads |-> 0]

\* the search of u1 is due for the ETL; the new price of housing 1 and the
\* new housing 2 have not been notified yet
InitRace ==
    /\ now = 14
    /\ searches = <<[user |-> "u1", provider |-> "ZonaProp", created_at |-> 0]>>
    /\ last_search_at = <<2>>
    /\ revs = [h \in PostIds |-> IF h = 1 THEN <<<<100, "USD">>, <<100, "ARS">>>>
                                           ELSE <<<<100, "USD">>>>]
    /\ watch = [k \in {1} \X PostIds |->
                  IF k[2] = 1 THEN [notified |-> 1, current |-> 2]
                              ELSE [notified |-> 0, current |-> 1]]
    /\ EtlIdle
    /\ NtIdle
    /\ SideIdle

\* housing 1 is known; u1's search is due for the ETL, and u2's create_search
\* has just inserted search 2 and is about to store the posts it fetched
InitialLogs == [h \in PostIds |-> IF h = 1 THEN <<<<100, "USD">>>> ELSE <<>>]

InitStores ==
    /\ now = 14
    /\ searches = <<[user |-> "u1", provider |-> "ZonaProp", created_at |-> 0],
                    [user |-> "u2", provider |-> "ZonaProp", created_at |-> 14]>>
    /\ last_search_at = <<2, None>>
    /\ revs = InitialLogs
    /\ watch = [k \in {1, 2} \X PostIds |->
                  IF k = <<1, 1>> THEN [notified |-> 1, current |-> 1] ELSE NoWatch]
    /\ EtlIdle
    /\ NtIdle
    /\ pg = NoFetch
    /\ orch = NoOrch
    /\ chat = NoChat
    /\ \E posts \in Batches \ {<<>>} :
         crReq = <<[NewReq("u2", [site |-> "ZonaProp", path |-> "a", query |-> ""])
                       EXCEPT !.pc = "store", !.provider = "ZonaProp", !.sid = 2,
                              !.posts = posts, !.outcome = "created",
                              !.fetch = "returned", !.total = Len(posts)]>>

\* a call of get_search_results is about to be made: any connector, with
\* max_pages not given or at least 1, on any site
InitPages ==
    /\ now = 2
    /\ searches = <<>> /\ last_search_at = <<>> /\ watch = <<>>
    /\ revs = [h \in PostIds |-> <<>>]
    /\ EtlIdle
    /\ NtIdle
    /\ crReq = <<>>
    /\ orch = NoOrch
    /\ chat = NoChat
    /\ \E p \in Adapters, k \in {None} \cup (1..MaxPagesArg), site \in Sites :
         pg = [provider |-> p, max_pages |-> k, site |-> site, fetched |-> None,
               attempt |-> 0, offsets |-> <<>>]

\* a call of Blueground's get_search_results is about to be made on a search
\* of any number of results, the site's page size being the size asked for
InitOffsets ==
    /\ now = 2
    /\ searches = <<>> /\ last_search_at = <<>> /\ watch = <<>>
    /\ revs = [h \in PostIds |-> <<>>]
    /\ EtlIdle
    /\ NtIdle
    /\ crReq = <<>>
    /\ orch = NoOrch
    /\ chat = NoChat
    /\ \E k \in {None} \cup (1..MaxPagesArg), n \in 0..MaxTotalItems :
         pg = [provider |-> "Blueground", max_pages |-> k,
               site |-> [listed |-> 0, total_pages |-> 0, total_items |-> n,
                         per_page |-> MAX_PAGE_SIZE],
               fetched |-> None, attempt |-> 0, offsets |-> <<>>]

NextPages == GetSearchResults

\* the head of a run, started by the scheduler or by hand
NextSelect == \E d \in {None, START_DELTA} : EtlStart(d)

Next == NextEtl

Spec == Init /\ [][Next]_vars

SpecNotify == InitNotify /\ [][NextNotify]_vars

SpecPipeline == InitPipeline /\ [][NextPipeline]_vars

SpecSelect == InitSelect /\ [][NextSelect]_vars

SpecPages == InitPages /\ [][NextPages]_vars

SpecCreate == InitCreate /\ [][NextCreate]_vars

SpecQuota == InitQuota /\ [][NextCreate]_vars

SpecOffsets == InitOffsets /\ [][NextPages]_vars

SpecStores == InitStores /\ [][NextStores]_vars

\* the passes are started over and over and go on to their end without a
\* failure, and a started ETL run goes on to its end
SpecRace ==
    InitRace /\ [][NextRace]_vars /\ WF_vars(NextNotifyOk) /\ WF_vars(NextEtlUnit)

SpecChat == InitChat /\ [][NextChat]_vars

SpecOrch == InitOrch /\ [][NextOrch]_vars

\* a started function runs on and the orchestrator starts what is ready
SpecOrchLive == InitOrch /\ [][NextOrch]_vars /\ WF_vars(NextOrch)

\* the passes are started over and over by the scheduler, each pass goes on
\* to its end, and nothing fails
SpecNotifyLive == InitNotify /\ [][NextNotifyOk]_vars /\ WF_vars(NextNotifyOk)

----------------------------------------------------------------------------
(* Properties of the revision engine *)

NoNews(rows) == \A i \in 1..Len(rows) : ~rows[i].is_new /\ ~rows[i].added_revision

\* C1: a store whose posts are identical to those of the store right before
\* it appends no revision, and reports no post as new nor as revised
StoreIdempotent ==
    [][(etlPc = "loop" /\ etlPc' = "watches"
          /\ etlPrev.search # 0 /\ etlPrev'.posts = etlPrev.posts)
       => (revs' = revs /\ NoNews(etlUnit'.rows))]_vars

StoredSameBatchTwice ==
    /\ etlUnit.outcome = "stored" /\ etlUnit.again
    /\ Len(etlPrev.posts) = 2
    /\ \E h \in DOMAIN revs : Len(revs[h]) = 2

\* C7: when an ETL run is over, every search it selected was either stored or
\* counted as failed, whatever failed before it, and the run reports exactly
\* the number of failed searches
EtlIsolation ==
    etlPc = "done" =>
        /\ etlOk \cup etlFailed = etlElig
        /\ etlOk \cap etlFailed = {}
        /\ etlReport = Cardinality(etlFailed)
        /\ \A s \in etlOk : last_search_at[s] = now

EtlFirstFailedSecondStored ==
    /\ etlPc = "done" /\ etlFailed = {1} /\ etlOk = {2} /\ etlReport = 1
    /\ \E h \in DOMAIN revs : watch[<<2, h>>] # NoWatch

\* C9: outside the store in flight, the housings a search's store has upserted
\* have that search's watch, at the housing's latest revision
StoreAllOrNothing ==
    etlPc # "watches" =>
        \A i \in 1..Len(etlUnit.rows) :
            LET k == <<etlUnit.search, etlUnit.rows[i].id>>
            IN  watch[k] # NoWatch /\ watch[k].current = Len(revs[k[2]])

\* C10: every post of a batch gets one result row; the row says is_new iff the
\* housing did not exist before the store, and added_revision iff it existed
\* and its latest (price, currency) differs from the post's
Classification ==
    etlPc = "watches" =>
        \A p \in Range(etlPrev.posts) :
            LET is   == {i \in 1..Len(etlUnit.rows) : etlUnit.rows[i].id = p.post_id}
                log  == etlUnit.before[p.post_id]
                last == LastWithId(etlPrev.posts,
                                   CHOOSE j \in 1..Len(etlPrev.posts) :
                                       etlPrev.posts[j].post_id = p.post_id)
            IN  /\ Cardinality(is) = 1
                /\ \A i \in is :
                    /\ etlUnit.rows[i].is_new <=> (log = <<>>)
                    /\ etlUnit.rows[i].added_revision <=>
                           (log # <<>> /\ log[Len(log)] # last.val)

ClassifiedNewAndRevised ==
    /\ etlPc = "watches"
    /\ \E i, j \in 1..Len(etlUnit.rows) :
        /\ etlUnit.rows[i].is_new /\ ~etlUnit.rows[i].added_revision
        /\ etlUnit.rows[j].added_revision /\ ~etlUnit.rows[j].is_new

\* C13: the revision log of a housing only grows at its end: every step
\* keeps the revisions a housing already has, unchanged and in their order,
\* so that the latest appended revision is the current one
RevisionLogAppendOnly ==
    [][\A h \in DOMAIN revs :
          /\ Len(revs'[h]) >= Len(revs[h])
          /\ SubSeq(revs'[h], 1, Len(revs[h])) = revs[h]]_vars

RevisionLogGrew ==
    /\ etlUnit.outcome = "stored"
    /\ \E h \in DOMAIN revs :
          /\ Len(revs[h]) = 3
          /\ \A s \in 1..NSearches : watch[<<s, h>>].current = 3

\* C14: of the posts of a batch that share a post_id only the last one is
\* stored: the id gets one result row, its housing exists with at most one
\* revision more than before, the latest revision carries the last post's
\* price and currency, and the warning is logged
DupesStoredOnce ==
    etlPc = "watches" =>
        \A i \in 1..Len(etlPrev.posts) :
            LET id   == etlPrev.posts[i].post_id
                js   == {j \in 1..Len(etlPrev.posts) : etlPrev.posts[j].post_id = id}
                last == CHOOSE j \in js : \A k \in js : k <= j
                rows == {r \in 1..Len(etlUnit.rows) : etlUnit.rows[r].id = id}
            IN  Cardinality(js) > 1 =>
                    /\ etlUnit.warned
                    /\ Cardinality(rows) = 1
                    /\ Len(revs[id]) >= 1
                    /\ Len(revs[id]) <= Len(etlUnit.before[id]) + 1
                    /\ revs[id][Len(revs[id])] = etlPrev.posts[last].val

DupesWithTwoPrices ==
    /\ etlPc = "watches" /\ etlUnit.warned
    /\ Len(etlPrev.posts) = 2
    /\ etlPrev.posts[1].post_id = etlPrev.posts[2].post_id
    /\ etlPrev.posts[1].val # etlPrev.posts[2].val
    /\ etlUnit.before[etlPrev.posts[1].post_id] = <<>>
    /\ revs[etlPrev.posts[1].post_id] = <<etlPrev.posts[2].val>>

\* C15: a run raises to its caller only when every unit failed
RaisesOnlyIfAllFailed == EtlRaised => etlOk = {}

\* C16: a unit is never started for a search whose unit failed in an earlier
\* attempt of the same scheduled ETL phase
NoInRunRetry ==
    [][(/\ etlPc = "loop" /\ etlQueue # <<>>
        /\ HasAdapter(Head(etlQueue))
        /\ (etlQueue' = Tail(etlQueue) \/ etlPc' = "watches"))
       => Head(etlQueue) \notin etlTried]_vars

\* C17: a run that selected a search whose provider has no connector
\* fetches and stores nothing
NoAdapterAbortsRun ==
    (etlPc # "idle" /\ \E s \in etlElig : ~HasAdapter(s)) =>
        /\ etlOk = {}
        /\ etlPc # "watches"
        /\ \A s \in etlFailed : ~HasAdapter(s)

\* C19: a search created less than ten minutes before the run started is
\* not selected by the run, with or without start_delta: it has no unit, no
\* watch and no last_search_at
EtlGrace ==
    \A s \in DOMAIN searches :
        now - searches[s].created_at < TEN_MIN =>
            /\ s \notin (etlElig \cup etlOk \cup etlFailed)
            /\ etlUnit.search # s
            /\ last_search_at[s] = None
            /\ \A h \in PostIds : watch[<<s, h>>] = NoWatch

EtlSkippedYoungSearch ==
    /\ etlPc = "done" /\ etlRuns = 2 /\ etlAttempt = 0
    /\ etlOk = 1..NSearches
    /\ \E s \in DOMAIN searches : now - searches[s].created_at < TEN_MIN

\* C24: once a unit has fetched from the provider, its search's
\* last_search_at is the time of the run, whether the store that followed
\* the fetch succeeded or raised
LastRunAtAfterQuery ==
    etlUnit.outcome \in {"stored", "housing_failed", "watches_failed"} =>
        last_search_at[etlUnit.search] = now

\* C27: a run given start_delta selects exactly the searches older than ten
\* minutes that were never fetched or whose last fetch is more than
\* start_delta before now; a run without start_delta selects every search
\* older than ten minutes
IncrementalScheduling ==
    [][etlRuns' = etlRuns + 1 =>
          LET d         == IF etlAttempt' = 0 THEN None ELSE START_DELTA
              post(s)   == now - searches[s].created_at > TEN_MIN
              within(s) == last_search_at[s] # None /\ now - last_search_at[s] <= d
              want      == {s \in DOMAIN searches : post(s) /\ (d = None \/ ~within(s))}
          IN  /\ etlElig' = want
              /\ Range(etlQueue') = want
              /\ Len(etlQueue') = Cardinality(want)]_vars

SkippedFreshKeptNullAndStale ==
    /\ etlPc = "loop" /\ etlAttempt = 1
    /\ \E s1, s2, s3 \in DOMAIN searches :
          /\ \A s \in {s1, s2, s3} : now - searches[s].created_at > TEN_MIN
          /\ last_search_at[s1] = None /\ s1 \in etlElig
          /\ last_search_at[s2] = now - START_DELTA /\ s2 \notin etlElig
          /\ last_search_at[s3] = now - START_DELTA - 1 /\ s3 \in etlElig

\* C32: in the rows of a stored batch no row is both is_new and
\* added_revision, the rows split into new, revised and unchanged ones, and
\* n_new_stuff counts each post_id of the batch at most once
CountsPartition ==
    etlPc = "watches" =>
        LET rows      == etlUnit.rows
            new       == {i \in 1..Len(rows) : rows[i].is_new}
            revised   == {i \in 1..Len(rows) : ~rows[i].is_new /\ rows[i].added_revision}
            unchanged == {i \in 1..Len(rows) : ~rows[i].is_new /\ ~rows[i].added_revision}
            post_ids  == {etlPrev.posts[j].post_id : j \in 1..Len(etlPrev.posts)}
        IN  /\ \A i \in 1..Len(rows) : ~(rows[i].is_new /\ rows[i].added_revision)
            /\ Cardinality(new) + Cardinality(revised) + Cardinality(unchanged) = Len(rows)
            /\ NNewStuff(rows) = Cardinality(new) + Cardinality(revised)
            /\ NNewStuff(rows) <= Cardinality(post_ids)

\* a batch that held a post_id twice was stored as one revised housing
DupesCountedOnce ==
    /\ etlPc = "watches"
    /\ etlUnit.warned
    /\ Len(etlUnit.rows) = 1
    /\ etlUnit.rows[1].added_revision
    /\ NNewStuff(etlUnit.rows) = 1

----------------------------------------------------------------------------
(* Properties of the notifier *)

\* C2: no (watch, revision) change is delivered more than once
ExactlyOncePerChange == \A k \in DOMAIN delivered : delivered[k] <= 1

\* C3: when a pass is over without an error, the watches whose entry was
\* delivered are marked with the delivered revision and every other watch
\* keeps the mark it had before the pass
MarkedIffDelivered ==
    ntPc = "done" =>
        \A k \in DOMAIN watch :
            watch[k] # NoWatch =>
                IF k \in ntHist.sent
                THEN watch[k].notified = watch[k].current
                ELSE watch[k].notified = ntHist.pre[k].notified

\* C4: of a user's n > MAX_NOTIFS_IN_UPDATE_PER_USER eligible watches, the
\* iteration takes the first MAX_NOTIFS_IN_UPDATE_PER_USER: these are all
\* delivered when the sends succeed, and marked once the marking is done; the
\* other ones are neither delivered nor marked and stay pending
BatchCap ==
    LET el == ntBatch.eligible
        M  == MAX_NOTIFS_IN_UPDATE_PER_USER
    IN  Len(el) > M =>
            /\ ntBatch.phase # "alert_failed" => ntBatch.watches = SubSeq(el, 1, M)
            /\ \A i \in 1..Len(el) :
                LET k == el[i].key
                IN  /\ i > M => /\ k \notin ntHist.sent
                                /\ watch[k] = ntHist.pre[k]
                                /\ Pending(watch[k])
                    /\ (i <= M /\ ntBatch.fail = "none") => k \in ntHist.sent
                    /\ (i <= M /\ ntBatch.phase = "marked") =>
                           watch[k].notified = el[i].revision

CappedBatchDelivered ==
    /\ Len(ntBatch.eligible) > MAX_NOTIFS_IN_UPDATE_PER_USER
    /\ ntBatch.fail = "none" /\ ntBatch.phase = "marked"
    /\ Cardinality({k \in DOMAIN watch : searches[k[1]].user = ntBatch.user
                                          /\ k \in ntHist.sent
                                          /\ ~Pending(watch[k])})
         = MAX_NOTIFS_IN_UPDATE_PER_USER
    /\ \E k \in DOMAIN watch : searches[k[1]].user = ntBatch.user /\ Pending(watch[k])

\* C5: the watches of a user that the pass found blocked keep the mark they
\* had before the pass
BlockedUserNotMarked ==
    \A k \in DOMAIN watch :
        (watch[k] # NoWatch /\ searches[k[1]].user \in ntHist.blocked)
            => watch[k].notified = ntHist.pre[k].notified

\* C6: when a send fails with an error other than the blocked signal, the
\* pass ends with that error, no watch of the user's batch is marked, and the
\* query of the next pass returns every watch of the batch again
OtherErrorKeepsBatch ==
    ntHist.err = "send" =>
        /\ ntPc = "raised"
        /\ \A i \in 1..Len(ntBatch.watches) :
            LET it == ntBatch.watches[i]
            IN  /\ watch[it.key] = ntHist.pre[it.key]
                /\ \E r \in Range(GetWatchesToNotify(ntKind)) :
                       r.user = ntBatch.user /\ it \in Range(r.watches)

SendFailedPartWay ==
    /\ ntHist.err = "send"
    /\ Len(ntBatch.watches) > 1
    /\ \E i \in 1..Len(ntBatch.watches) : ntBatch.watches[i].key \in ntHist.sent

\* C8: when a pass ends, with or without an error, every user its query
\* returned has had its iteration
NotifyPerUserIsolation ==
    ntPc \in {"done", "raised"} => ntHist.started = ntHist.users

\* C20: a watch whose search was created less than ten minutes before the
\* pass started is never sent and never marked: it keeps the notified
\* revision it had and stays pending
NotifyGrace ==
    \A k \in DOMAIN watch :
        (watch[k] # NoWatch /\ now - searches[k[1]].created_at < TEN_MIN) =>
            /\ k \notin ntHist.sent
            /\ \A r \in 0..MaxRevs : <<k[1], k[2], r>> \notin DOMAIN delivered
            /\ Pending(watch[k])
            /\ ntRuns > 0 => watch[k] = ntHist.pre[k]

NotifyPassedOverYoungWatch ==
    /\ ntPc = "done" /\ ntHist.err = "none"
    /\ \E k, o \in DOMAIN watch :
        /\ watch[k] # NoWatch /\ now - searches[k[1]].created_at < TEN_MIN
        /\ searches[o[1]].user = searches[k[1]].user
        /\ o[2] = k[2] /\ o \in ntHist.sent /\ ~Pending(watch[o])
        /\ k \notin ntHist.sent /\ Pending(watch[k])

OldWatches ==
    {k \in DOMAIN watch : watch[k] # NoWatch /\ now - searches[k[1]].created_at > TEN_MIN}

AllOldWatchesDelivered ==
    \A k \in OldWatches :
        /\ ~Pending(watch[k])
        /\ <<k[1], k[2], watch[k].current>> \in DOMAIN delivered

\* C18: when no send and no marking fails, the passes that follow one another
\* deliver and mark every pending watch of every search older than ten
\* minutes, also those that a pass withheld by truncation
NoStarvation == <>AllOldWatchesDelivered

WithheldThenDelivered ==
    /\ AllOldWatchesDelivered
    /\ \E u \in Range(UserSeq) :
          Cardinality({k \in OldWatches : searches[k[1]].user = u})
              > MAX_NOTIFS_IN_UPDATE_PER_USER
    /\ \A k \in OldWatches : delivered[<<k[1], k[2], watch[k].current>>] = 1

\* C21: over the pass of the updates and the pass of the new housings that
\* follows it, no user is sent more than MAX_NOTIFS_IN_UPDATE_PER_USER
\* individual entries
PerRunCap ==
    \A u \in DOMAIN ntHist.run : ntHist.run[u] <= MAX_NOTIFS_IN_UPDATE_PER_USER

\* C23: every entry the pass of the updates has sent shows, as its old part,
\* the price and currency of the revision the watch was notified at before
\* the pass, which is an earlier revision of the housing than the one being
\* notified, and, as its new part, those of the revision being notified
OldNewOrdering ==
    ntKind = "upd" =>
        \A e \in ntHist.payload :
            LET r1 == ntHist.pre[e.key].notified
                r2 == ntHist.pre[e.key].current
                log == revs[e.key[2]]
            IN  /\ 1 <= r1 /\ r1 < r2 /\ r2 <= Len(log)
                /\ e.old = <<"$", log[r1][1], log[r1][2], FALSE>>
                /\ e.new = <<"$", log[r2][1], log[r2][2], TRUE>>

OldHundredNewNinety ==
    /\ ntKind = "upd" /\ ntPc = "done"
    /\ \E e \in ntHist.payload :
          /\ revs[e.key[2]] = <<<<100, "USD">>, <<90, "USD">>>>
          /\ e.old = <<"$", 100, "USD", FALSE>>
          /\ e.new = <<"$", 90, "USD", TRUE>>
          /\ watch[e.key].notified = 2

\* C25: when a user has more eligible watches than the cap, the messages
\* composed for the user contain the summary line about withheld results and
\* the operator is alerted
TruncationAnnounced ==
    (/\ Len(ntBatch.eligible) > MAX_NOTIFS_IN_UPDATE_PER_USER
     /\ ntBatch.phase \in {"sent", "marked", "mark_failed"})
        => (ntBatch.warned /\ ntBatch.user \in ntHist.alerted)

\* C28: when the blocked signal ends a user's sending loop, the entries sent
\* are a proper part of the batch from its start, the pass does not raise
\* for it, and the pass goes on to the marking and to the users that follow
BlockedStopsBatchOnly ==
    /\ (ntBatch.fail = "blocked" /\ ntBatch.phase = "sent") => ntPc = "mark"
    /\ ntBatch.fail = "blocked" =>
          LET b == ntBatch.watches
          IN  /\ \A i \in 1..Len(b) :
                     b[i].key \in ntHist.sent => \A j \in 1..i : b[j].key \in ntHist.sent
              /\ (~ntBatch.warned /\ b # <<>>) => b[Len(b)].key \notin ntHist.sent
    /\ (ntPc = "raised") => ntHist.err # "none"
    /\ (ntPc = "done") => ntHist.started = ntHist.users

BlockedThenNextUserNotified ==
    /\ ntPc = "done" /\ ntHist.err = "none"
    /\ ntHist.blocked = {"u1"}
    /\ \E k \in ntHist.sent : searches[k[1]].user = "u1"
    /\ \E k \in DOMAIN watch :
          searches[k[1]].user = "u1" /\ OfKind(ntKind, ntHist.pre[k]) /\ k \notin ntHist.sent
    /\ \E k \in ntHist.sent : searches[k[1]].user = "u2"

----------------------------------------------------------------------------
(* Properties of create_search *)

PageCutOff ==
    (pg.fetched # None /\ pg.max_pages # None) => pg.fetched <= pg.max_pages

\* C39: the offsets Blueground is asked for are 0, 50, 100, ... one page after
\* the other, so that every result below min(total_items, max_pages * 50) is
\* in a window asked for, and no window after the first starts past the last
\* result
PagingCoversResults ==
    (pg.provider = "Blueground" /\ pg.fetched # None) =>
        LET total == pg.site.total_items
            limit == IF pg.max_pages = None THEN total
                     ELSE Min(total, pg.max_pages * MAX_PAGE_SIZE)
        IN  /\ \A j \in 1..Len(pg.offsets) : pg.offsets[j] = (j - 1) * MAX_PAGE_SIZE
            /\ \A i \in 0..(limit - 1) :
                  \E j \in 1..Len(pg.offsets) :
                      pg.offsets[j] <= i /\ i < pg.offsets[j] + MAX_PAGE_SIZE
            /\ \A j \in 2..Len(pg.offsets) : pg.offsets[j] < total

\* the housings whose creation the rows of a store report
CreatedBy(rows) == {rows[i].id : i \in {j \in 1..Len(rows) : rows[j].is_new}}

\* C33: while an ETL unit and the store of create_search interleave, no log
\* holds the same (price, currency) twice in a row, a housing that was known
\* is created by neither store, and a housing that was not is created by at
\* most one of them and then has a log
NoDuplicateRevision ==
    \A h \in PostIds :
        /\ \A i \in 1..(Len(revs[h]) - 1) : revs[h][i] # revs[h][i + 1]
        /\ \A p \in DOMAIN crReq :
              LET byEtl == h \in CreatedBy(etlUnit.rows)
                  byCr  == h \in CreatedBy(crReq[p].rows)
              IN  /\ ~(byEtl /\ byCr)
                  /\ (byEtl \/ byCr) => (InitialLogs[h] = <<>> /\ revs[h] # <<>>)

\* both stores held housing 2 at the same price, the ETL unit is between its
\* two store calls and create_search's has made its first: one revision
SameListingStoredTwice ==
    /\ etlPc = "watches"
    /\ crReq[1].pc = "store_watches"
    /\ \E i \in 1..Len(etlPrev.posts), j \in 1..Len(crReq[1].posts) :
          /\ etlPrev.posts[i] = crReq[1].posts[j]
          /\ etlPrev.posts[i].post_id = 2
    /\ Len(revs[2]) = 1

\* the entry of the watch at the revision was sent
Delivered(k, r) == <<k[1], k[2], r>> \in DOMAIN delivered

\* C34: the marking sets each watch to the revision the pass read, so a watch
\* that a store has moved on since the query is still pending after it; and a
\* watch that is pending for a revision gets that revision delivered, unless
\* a store moves it on first
NoLostChange ==
    /\ [][(ntPc = "mark" /\ ntPc' = "loop") =>
            \A i \in 1..Len(ntBatch.watches) :
                LET it == ntBatch.watches[i]
                IN  /\ watch'[it.key].notified = it.revision
                    /\ watch[it.key].current # it.revision => Pending(watch'[it.key])]_vars
    /\ \A k \in {1} \X PostIds, r \in 1..MaxRevs :
          (watch[k].current = r /\ watch[k].notified # r)
              ~> (Delivered(k, r) \/ watch[k].current # r)

\* a pass read housing 1 at revision 2 and sent it, a store moved the watch
\* to revision 3 before the marking, and the pass has marked revision 2
MarkedAfterStoreMovedOn ==
    /\ ntBatch.phase = "marked"
    /\ <<1, 1>> \in ntHist.moved
    /\ Delivered(<<1, 1>>, 2) /\ ~Delivered(<<1, 1>>, 3)
    /\ watch[<<1, 1>>] = [notified |-> 2, current |-> 3]

\* C36: no user of the free tier owns more than MAX_FREE_SEARCHES searches
FreeTierQuota ==
    \A u \in {"u1", "u2"} : Cardinality(UserSearches(u)) <= MAX_FREE_SEARCHES

----------------------------------------------------------------------------
(* Properties of the bot's handlers *)

\* C35: create_search is called at most once for the message
OneCreationAttempt == chat.calls <= 1

\* C38: a read of the status more than twelve hours after its last change
\* returns IDLE and sets the time of the last change to the time of the
\* read; a read within twelve hours returns the status and changes nothing
StatusExpiry ==
    [][chat'.reads = chat.reads + 1 =>
         IF now > chat.last_change_at + EXPIRATION_TIMEDELTA
         THEN /\ chat'.got = "IDLE"
              /\ chat'.status = "IDLE"
              /\ chat'.last_change_at = now
         ELSE /\ chat'.got = chat.status
              /\ chat'.status = chat.status
              /\ chat'.last_change_at = chat.last_change_at]_vars

\* /crear had set CREATING_SEARCH, and a read more than twelve hours later
\* returned IDLE
ExpiredReadReturnedIdle ==
    /\ chat.cmds = 1 /\ chat.urlPc = "none"
    /\ chat.reads > 0 /\ chat.got = "IDLE" /\ chat.status = "IDLE"
    /\ chat.last_change_at > 2 + EXPIRATION_TIMEDELTA

----------------------------------------------------------------------------
(* Properties of the orchestrators *)

\* C30: a task starts only when the task before it is over, and when the run
\* is over each of the three tasks has been tried, whatever failed before it
PhaseOrderAndIndependence ==
    /\ \A t \in {"upd", "new"} :
          orch.tries[t] > 0 => orch.state[Upstream(t)] \in TaskOver
    /\ (\A t \in Tasks : orch.state[t] \in TaskOver) =>
          \A t \in Tasks : orch.tries[t] > 0 /\ orch.state[t] # "upstream_failed"

\* every task of the run is over
RunOver == \A t \in Tasks : orch.state[t] \in TaskOver

\* C31: no task is tried more than three times and no fetch is attempted
\* more than three times, every run comes to its end, and at the end of the
\* job every phase was reached: no exception left housing_searches_pipeline
BoundedRetriesAndTermination ==
    /\ [](\A t \in Tasks : orch.tries[t] <= MAX_ATTEMPTS)
    /\ [](pg.attempt + 1 <= MAX_ATTEMPTS)
    /\ <>[]RunOver
    /\ []((orch.kind = "job" /\ RunOver) =>
            \A t \in Tasks : orch.tries[t] > 0 /\ orch.state[t] \in {"success", "failed"})

\* the job's run is over and every attempt of every phase failed
JobEveryAttemptFailed ==
    /\ orch.kind = "job"
    /\ \A t \in Tasks : orch.state[t] = "failed" /\ orch.tries[t] = MAX_ATTEMPTS
    /\ etlUnit.outcome = "fetch_failed"

----------------------------------------------------------------------------
(* Properties of the pipeline as a whole *)

\* C11: a watch created by the first store of its search (the store of
\* create_search, or the first ETL unit of a search without last_search_at)
\* is created as notified at the housing's revision of that moment: no pass
\* delivers that revision or an earlier one for it, and the watch is not
\* pending as long as its current revision is still that one
SeededNotDelivered ==
    \A k \in DOMAIN seeded :
        seeded[k] # 0 =>
            /\ watch[k].notified >= seeded[k]
            /\ \A r \in 1..seeded[k] : <<k[1], k[2], r>> \notin DOMAIN delivered
            /\ watch[k].current = seeded[k] => ~Pending(watch[k])

SeededThenRevisedDelivered ==
    /\ ntPc = "done"
    /\ \E k, o \in DOMAIN seeded :
        /\ k[1] = 1 /\ seeded[k] = 1
        /\ <<k[1], k[2], 2>> \in DOMAIN delivered
        /\ o[1] = 2 /\ seeded[o] # 0
        /\ now - searches[o[1]].created_at > TEN_MIN
        /\ watch[o].current = seeded[o]
        /\ \A r \in 0..MaxRevs : <<o[1], o[2], r>> \notin DOMAIN delivered

\* the watches one of the two queries of the notifier returns
Queried ==
    UNION {{r.watches[i].key : i \in 1..Len(r.watches)} :
              r \in Range(GetWatchesToNotify("upd")) \cup Range(GetWatchesToNotify("new"))}

====
